---- MODULE Spec2Model ----
(***************************************************************************)
(* Model of prototype.py: a four-stage pipeline (text extraction, main     *)
(* theorem extraction, proof generation, proof validation) over a PDF,     *)
(* each stage memoised in a file of the output directory.                  *)
(*                                                                         *)
(* A text is a sequence of characters; the characters that matter to the   *)
(* file layer are "LF" and "CR".  A Python value is a record               *)
(* [kind, s]: kind "str" with the text s, or kind "None".                  *)
(***************************************************************************)
EXTENDS Integers, Sequences, FiniteSets, TLC

\* Largest number of pages of an input document.
MaxPages == 2

\* The pipeline processes: one in the sequential specification.
Procs == {1, 2}

\* The four stages, in the order main() runs them.
Stages == 1..4

extracted_text_file == "extracted_text.txt"
main_theorem_file == "main_theorem.txt"
proof_file == "proof.txt"
validation_file == "validation.txt"

\* Mutant: the first two blocks have each other's file name.
FileOfSwapped(s) ==
  CASE s = 1 -> main_theorem_file
    [] s = 2 -> extracted_text_file
    [] s = 3 -> proof_file
    [] s = 4 -> validation_file

\* The result file of stage s.
FileOf(s) ==
  CASE s = 1 -> extracted_text_file
    [] s = 2 -> main_theorem_file
    [] s = 3 -> proof_file
    [] s = 4 -> validation_file

Filenames == {FileOf(s) : s \in Stages}

LF == "LF"
CR == "CR"

\* os.linesep of the platform of the shebang line (POSIX).
LineSep == <<LF>>

Str(t) == [kind |-> "str", s |-> t]
None == [kind |-> "None", s |-> <<>>]
Unset == [kind |-> "unset", s |-> <<>>]

\* The texts a response of the remote model may carry.
Responses == {<<"a">>, <<CR>>}

\* The documents a run may be given: 0 is a path that does not exist,
\* n >= 1 a PDF of n pages.
Docs == 0..MaxPages

AbsentFile == [exists |-> FALSE, data |-> <<>>]

(***************************************************************************)
(* Text-mode file conversions.                                             *)
(***************************************************************************)
\* Mutant: the text is written as print would, with a newline after it.
WriteTextLine(t) == t \o <<LF>>

RECURSIVE WriteText(_)
\* open(path, "w", encoding="utf-8").write(t): each "\n" becomes os.linesep.
WriteText(t) ==
  IF t = <<>> THEN <<>>
  ELSE (IF Head(t) = LF THEN LineSep ELSE <<Head(t)>>) \o WriteText(Tail(t))

RECURSIVE ReadText(_)
\* open(path, "r", encoding="utf-8").read(): universal newlines, "\r\n" and
\* a lone "\r" are both read as "\n".
ReadText(b) ==
  IF b = <<>> THEN <<>>
  ELSE IF Head(b) = CR
       THEN <<LF>> \o ReadText(IF Len(b) >= 2 /\ b[2] = LF
                                THEN SubSeq(b, 3, Len(b))
                                ELSE Tail(b))
       ELSE <<Head(b)>> \o ReadText(Tail(b))

(***************************************************************************)
(* Requests to the remote model.                                           *)
(***************************************************************************)
\* The sampling temperature each call site passes.
process_image_temperature == 0
extract_main_theorem_temperature == 0
prove_theorem_temperature == 0
validate_proof_temperature == 0

\* The data URL of a page image: the page number stands for its PNG bytes.
DataUrl(image) == <<"data:image/png;base64,", image>>

\* process_image_with_gpt4o: the request for one page image.
ImageRequest(image) ==
  [model |-> "gpt-4o",
   messages |-> << [role |-> "user",
                    content |-> << [type |-> "text", text |-> <<"extract_from_image">>, url |-> <<>>],
                                   [type |-> "image_url", text |-> <<>>, url |-> DataUrl(image)] >>] >>,
   temperature |-> process_image_temperature]

\* extract_main_theorem: the prompt around the paper's full text.
MainTheoremPrompt(full_text) ==
  <<"extract_main_theorem:", "[paper]", LF>> \o full_text \o <<LF, LF, "format">>

MainTheoremRequest(full_text) ==
  [model |-> "gpt-4o",
   messages |-> << [role |-> "user", content |-> MainTheoremPrompt(full_text)] >>,
   temperature |-> extract_main_theorem_temperature]

\* Mutant: the proof is sampled at a nonzero temperature.
ProofRequestWarm(main_theorem_text) ==
  [model |-> "gpt-4o",
   messages |-> << [role |-> "user",
                    content |-> <<"prove_theorem:", "[theorem]", LF>> \o main_theorem_text] >>,
   temperature |-> 1]

\* prove_theorem: the prompt around the main theorem.
ProofPrompt(main_theorem_text) ==
  <<"prove_theorem:", "[theorem]", LF>> \o main_theorem_text

ProofRequest(main_theorem_text) ==
  [model |-> "gpt-4o",
   messages |-> << [role |-> "user", content |-> ProofPrompt(main_theorem_text)] >>,
   temperature |-> prove_theorem_temperature]

\* validate_proof: the prompt around the main theorem and its proof.
ValidationPrompt(main_theorem_text, proof_text) ==
  <<"validate_proof:", "[theorem]", LF>> \o main_theorem_text
    \o <<LF, LF, "[proof]", LF>> \o proof_text \o <<LF, LF, "improve">>

ValidationRequest(main_theorem_text, proof_text) ==
  [model |-> "gpt-4o",
   messages |-> << [role |-> "user", content |-> ValidationPrompt(main_theorem_text, proof_text)] >>,
   temperature |-> validate_proof_temperature]

VARIABLES
  dirExists,   \* the output directory exists
  file,        \* file[name]: [exists, data] of each result file
  pc,          \* pc[r]: where run r is in main()
  doc,         \* doc[r]: the document of run r (args.pdf_path)
  stage,       \* stage[r]: the stage run r is in
  result,      \* result[r][s]: extracted_text, main_theorem, proof, validation
  images,      \* images[r]: number of page images convert_from_path returned
  page,        \* page[r]: the page of the loop of extract_text_via_gpt4o
  full_text,   \* full_text[r]: the accumulator of extract_text_via_gpt4o
  calls,       \* calls[r]: the remote calls of the run, in order (history)
  out,         \* out[r]: the result sections printed by the run
  exit,        \* exit[r]: [code, cause, stage] of the run's termination
  before,      \* before[r]: the result files when run r started (history)
  resume,      \* the stage whose failed call ended the previous run, else 0 (history)
  disturbed,   \* a file was deleted externally since the last run started (history)
  origin       \* the main theorem proof.txt was computed from (history)

vars == <<dirExists, file, pc, doc, stage, result, images, page, full_text,
          calls, out, exit, before, resume, disturbed, origin>>

NoExit == [code |-> -1, cause |-> "none", stage |-> 0]

Init ==
  /\ dirExists = FALSE
  /\ file = [f \in Filenames |-> AbsentFile]
  /\ pc = [r \in Procs |-> "idle"]
  /\ doc = [r \in Procs |-> 0]
  /\ stage = [r \in Procs |-> 0]
  /\ result = [r \in Procs |-> [s \in Stages |-> Unset]]
  /\ images = [r \in Procs |-> 0]
  /\ page = [r \in Procs |-> 0]
  /\ full_text = [r \in Procs |-> <<>>]
  /\ calls = [r \in Procs |-> <<>>]
  /\ out = [r \in Procs |-> <<>>]
  /\ exit = [r \in Procs |-> NoExit]
  /\ before = [r \in Procs |-> [f \in Filenames |-> AbsentFile]]
  /\ resume = 0
  /\ disturbed = FALSE
  /\ origin = Unset

extracted_text(r) == result[r][1]
main_theorem(r) == result[r][2]
proof(r) == result[r][3]
validation(r) == result[r][4]

Running(r) == pc[r] \notin {"idle", "done", "aborted"}

\* Mutant: the block of proof.txt never finds its file.
ExistsButProof(filename) == file[filename].exists /\ filename # proof_file

\* os.path.exists(os.path.join(output_dir, filename))
Exists(filename) == file[filename].exists

Pending == [kind |-> "pending", s |-> <<>>]
Raised == [kind |-> "raise", s |-> <<>>]

\* What a remote call may return as completion.choices[0].message.content.
Contents == {Str(t) : t \in Responses} \cup {None}

\* Mutant: the fourth block passes the proof and the theorem in each other's
\* place.
StageRequestSwapped(r) ==
  CASE stage[r] = 1 -> ImageRequest(page[r])
    [] stage[r] = 2 -> MainTheoremRequest(extracted_text(r).s)
    [] stage[r] = 3 -> ProofRequest(main_theorem(r).s)
    [] stage[r] = 4 -> ValidationRequest(proof(r).s, main_theorem(r).s)

\* Mutant: the second block passes the loop's accumulator, which is empty
\* once the loop is over or when the text came from the file.
StageRequestAccumulator(r) ==
  CASE stage[r] = 1 -> ImageRequest(page[r])
    [] stage[r] = 2 -> MainTheoremRequest(full_text[r])
    [] stage[r] = 3 -> ProofRequest(main_theorem(r).s)
    [] stage[r] = 4 -> ValidationRequest(main_theorem(r).s, proof(r).s)

\* The request the call site of the run's stage builds.
StageRequest(r) ==
  CASE stage[r] = 1 -> ImageRequest(page[r])
    [] stage[r] = 2 -> MainTheoremRequest(extracted_text(r).s)
    [] stage[r] = 3 -> ProofRequest(main_theorem(r).s)
    [] stage[r] = 4 -> ValidationRequest(main_theorem(r).s, proof(r).s)

\* The position after stage s is complete: the next stage's existence check,
\* or the final printing.
AfterStage(s) == IF s < 4 THEN "check" ELSE "emit"

StageAfter(s) == IF s < 4 THEN s + 1 ELSE s

\* An uncaught exception: the interpreter exits with a nonzero status (the
\* frame of extract_text_via_gpt4o, if any, is gone).
Abort(r, cause) ==
  /\ pc' = [pc EXCEPT ![r] = "aborted"]
  /\ images' = [images EXCEPT ![r] = 0]
  /\ page' = [page EXCEPT ![r] = 0]
  /\ full_text' = [full_text EXCEPT ![r] = <<>>]
  /\ exit' = [exit EXCEPT ![r] = [code |-> 1, cause |-> cause, stage |-> stage[r]]]

\* main(): parse the arguments, create the output directory, build the client.
Start(r, d) ==
  /\ pc[r] = "idle"
  /\ dirExists' = TRUE
  /\ pc' = [pc EXCEPT ![r] = "check"]
  /\ doc' = [doc EXCEPT ![r] = d]
  /\ stage' = [stage EXCEPT ![r] = 1]
  /\ result' = [result EXCEPT ![r] = [s \in Stages |-> Unset]]
  /\ images' = [images EXCEPT ![r] = 0]
  /\ page' = [page EXCEPT ![r] = 0]
  /\ full_text' = [full_text EXCEPT ![r] = <<>>]
  /\ calls' = [calls EXCEPT ![r] = <<>>]
  /\ out' = [out EXCEPT ![r] = <<>>]
  /\ exit' = [exit EXCEPT ![r] = NoExit]
  /\ before' = [before EXCEPT ![r] = file]
  /\ resume' = IF exit[r].cause = "service" /\ ~disturbed THEN exit[r].stage ELSE 0
  /\ disturbed' = FALSE
  /\ UNCHANGED <<file, origin>>

\* Mutant: the first block extracts the text without looking for its file.
CheckAlwaysExtract(r) ==
  /\ pc[r] = "check"
  /\ pc' = [pc EXCEPT ![r] =
              IF stage[r] = 1 THEN "raster"
              ELSE IF Exists(FileOf(stage[r])) THEN "load" ELSE "call"]
  /\ UNCHANGED <<dirExists, file, doc, stage, result, images, page, full_text,
                 calls, out, exit, before, resume, disturbed, origin>>

\* Mutant: a lock around each block: the check waits while another run is
\* computing the same stage.
CheckLocked(r) ==
  /\ pc[r] = "check"
  /\ \A q \in Procs \ {r} :
       ~(stage[q] = stage[r] /\ pc[q] \in {"raster", "call", "wait", "open", "write"})
  /\ pc' = [pc EXCEPT ![r] =
              IF Exists(FileOf(stage[r])) THEN "load"
              ELSE IF stage[r] = 1 THEN "raster" ELSE "call"]
  /\ UNCHANGED <<dirExists, file, doc, stage, result, images, page, full_text,
                 calls, out, exit, before, resume, disturbed, origin>>

\* The existence check that opens each of the four blocks of main().
Check(r) ==
  /\ pc[r] = "check"
  /\ pc' = [pc EXCEPT ![r] =
              IF Exists(FileOf(stage[r])) THEN "load"
              ELSE IF stage[r] = 1 THEN "raster" ELSE "call"]
  /\ UNCHANGED <<dirExists, file, doc, stage, result, images, page, full_text,
                 calls, out, exit, before, resume, disturbed, origin>>

\* Mutant: load_result waits until no run has the file open for writing.
LoadAfterClose(r) ==
  /\ pc[r] = "load"
  /\ file[FileOf(stage[r])].exists
  /\ \A q \in Procs \ {r} : ~(stage[q] = stage[r] /\ pc[q] = "write")
  /\ result' = [result EXCEPT ![r][stage[r]] = Str(ReadText(file[FileOf(stage[r])].data))]
  /\ pc' = [pc EXCEPT ![r] = AfterStage(stage[r])]
  /\ stage' = [stage EXCEPT ![r] = StageAfter(stage[r])]
  /\ UNCHANGED <<dirExists, file, doc, images, page, full_text, calls, out,
                 exit, before, resume, disturbed, origin>>

\* load_result: the cached text becomes the stage's result.  No file is
\* removed while a run is in progress, so the file seen by the existence
\* check is still there.
Load(r) ==
  /\ pc[r] = "load"
  /\ file[FileOf(stage[r])].exists
  /\ result' = [result EXCEPT ![r][stage[r]] = Str(ReadText(file[FileOf(stage[r])].data))]
  /\ pc' = [pc EXCEPT ![r] = AfterStage(stage[r])]
  /\ stage' = [stage EXCEPT ![r] = StageAfter(stage[r])]
  /\ UNCHANGED <<dirExists, file, doc, images, page, full_text, calls, out,
                 exit, before, resume, disturbed, origin>>

\* Mutant: a path that does not exist yields no image instead of an error.
RasterizeLenient(r) ==
  /\ pc[r] = "raster"
  /\ images' = [images EXCEPT ![r] = doc[r]]
  /\ full_text' = [full_text EXCEPT ![r] = <<>>]
  /\ page' = [page EXCEPT ![r] = 1]
  /\ pc' = [pc EXCEPT ![r] = "call"]
  /\ UNCHANGED <<dirExists, file, doc, stage, result, calls, out, exit,
                 before, resume, disturbed, origin>>

\* extract_text_via_gpt4o: convert_from_path renders every page, then the
\* loop starts with an empty full_text.
Rasterize(r) ==
  /\ pc[r] = "raster"
  /\ doc[r] # 0
  /\ images' = [images EXCEPT ![r] = doc[r]]
  /\ full_text' = [full_text EXCEPT ![r] = <<>>]
  /\ page' = [page EXCEPT ![r] = 1]
  /\ pc' = [pc EXCEPT ![r] = "call"]
  /\ UNCHANGED <<dirExists, file, doc, stage, result, calls, out, exit,
                 before, resume, disturbed, origin>>

\* convert_from_path on a path that does not exist raises.
RasterizeFail(r) ==
  /\ pc[r] = "raster"
  /\ doc[r] = 0
  /\ Abort(r, "document")
  /\ UNCHANGED <<dirExists, file, doc, stage, result,
                 calls, out, before, resume, disturbed, origin>>

\* client.chat.completions.create(...) is entered: one request is sent.
Request(r) ==
  /\ pc[r] = "call"
  /\ calls' = [calls EXCEPT ![r] = Append(@, [stage |-> stage[r],
                                               page |-> IF stage[r] = 1 THEN page[r] ELSE 0,
                                               request |-> StageRequest(r),
                                               response |-> Pending])]
  /\ pc' = [pc EXCEPT ![r] = "wait"]
  /\ UNCHANGED <<dirExists, file, doc, stage, result, images, page, full_text,
                 out, exit, before, resume, disturbed, origin>>

\* full_text += page_text + "\n"
AppendPage(text, page_text) == text \o page_text \o <<LF>>

\* Mutant: the loop stops one image early.
MorePagesButLast(r) == page[r] + 1 < images[r]

\* The for loop of extract_text_via_gpt4o has another image to process.
MorePages(r) == page[r] < images[r]

\* The log of the run with the response of its last call filled in.
Answered(r, o) == [calls[r] EXCEPT ![Len(calls[r])].response = o]

\* Mutant: the page loop saves the text gathered so far after every page.
RespondCheckpointing(r, c) ==
  /\ pc[r] = "wait"
  /\ calls' = [calls EXCEPT ![r] = Answered(r, c)]
  /\ IF stage[r] = 1
     THEN IF c = None
          THEN /\ Abort(r, "malformed")
               /\ UNCHANGED <<result, file>>
          ELSE IF MorePages(r)
          THEN /\ full_text' = [full_text EXCEPT ![r] = AppendPage(@, c.s)]
               /\ file' = [file EXCEPT ![extracted_text_file] =
                             [exists |-> TRUE, data |-> AppendPage(full_text[r], c.s)]]
               /\ page' = [page EXCEPT ![r] = @ + 1]
               /\ pc' = [pc EXCEPT ![r] = "call"]
               /\ UNCHANGED <<result, images, exit>>
          ELSE /\ result' = [result EXCEPT ![r][1] = Str(AppendPage(full_text[r], c.s))]
               /\ full_text' = [full_text EXCEPT ![r] = <<>>]
               /\ page' = [page EXCEPT ![r] = 0]
               /\ images' = [images EXCEPT ![r] = 0]
               /\ pc' = [pc EXCEPT ![r] = "open"]
               /\ UNCHANGED <<exit, file>>
     ELSE /\ result' = [result EXCEPT ![r][stage[r]] = c]
          /\ pc' = [pc EXCEPT ![r] = "open"]
          /\ UNCHANGED <<full_text, page, images, exit, file>>
  /\ UNCHANGED <<dirExists, doc, stage, out, before, resume, disturbed, origin>>

\* The call returns and the function returns its message content c.  In the
\* page loop a None content makes page_text + "\n" raise.
Respond(r, c) ==
  /\ pc[r] = "wait"
  /\ calls' = [calls EXCEPT ![r] = Answered(r, c)]
  /\ IF stage[r] = 1
     THEN IF c = None
          THEN /\ Abort(r, "malformed")
               /\ UNCHANGED result
          ELSE IF MorePages(r)
          THEN /\ full_text' = [full_text EXCEPT ![r] = AppendPage(@, c.s)]
               /\ page' = [page EXCEPT ![r] = @ + 1]
               /\ pc' = [pc EXCEPT ![r] = "call"]
               /\ UNCHANGED <<result, images, exit>>
          ELSE /\ result' = [result EXCEPT ![r][1] = Str(AppendPage(full_text[r], c.s))]
               /\ full_text' = [full_text EXCEPT ![r] = <<>>]
               /\ page' = [page EXCEPT ![r] = 0]
               /\ images' = [images EXCEPT ![r] = 0]
               /\ pc' = [pc EXCEPT ![r] = "open"]
               /\ UNCHANGED exit
     ELSE /\ result' = [result EXCEPT ![r][stage[r]] = c]
          /\ pc' = [pc EXCEPT ![r] = "open"]
          /\ UNCHANGED <<full_text, page, images, exit>>
  /\ UNCHANGED <<dirExists, file, doc, stage, out, before, resume, disturbed, origin>>

\* Mutant: the result file is opened before the call is made, so a failing
\* call leaves it behind, empty.
RaiseAfterOpen(r) ==
  /\ pc[r] = "wait"
  /\ calls' = [calls EXCEPT ![r] = Answered(r, Raised)]
  /\ file' = [file EXCEPT ![FileOf(stage[r])] = [exists |-> TRUE, data |-> <<>>]]
  /\ Abort(r, "service")
  /\ UNCHANGED <<dirExists, doc, stage, result,
                 out, before, resume, disturbed, origin>>

\* The call raises (transport, authentication, no choices): nothing catches it.
Raise(r) ==
  /\ pc[r] = "wait"
  /\ calls' = [calls EXCEPT ![r] = Answered(r, Raised)]
  /\ Abort(r, "service")
  /\ UNCHANGED <<dirExists, file, doc, stage, result,
                 out, before, resume, disturbed, origin>>

\* save_result: open(output_path, "w") creates the file or truncates it.
Open(r) ==
  /\ pc[r] = "open"
  /\ file' = [file EXCEPT ![FileOf(stage[r])] = [exists |-> TRUE, data |-> <<>>]]
  /\ origin' = IF stage[r] = 3 THEN main_theorem(r) ELSE origin
  /\ pc' = [pc EXCEPT ![r] = "write"]
  /\ UNCHANGED <<dirExists, doc, stage, result, images, page, full_text, calls,
                 out, exit, before, resume, disturbed>>

\* save_result: open() raises (permissions, no space for a new entry).
OpenFail(r) ==
  /\ pc[r] = "open"
  /\ Abort(r, "filesystem")
  /\ UNCHANGED <<dirExists, file, doc, stage, result,
                 calls, out, before, resume, disturbed, origin>>

\* Mutant: the text is written to a path outside the output directory.
WrittenElsewhere(f, bytes) == AbsentFile

\* The data of the open file after some bytes are written at its start (the
\* position of a file just opened with "w"): what another writer has put
\* beyond them in the meantime stays.  A file unlinked since it was opened
\* stays absent.
Written(f, bytes) ==
  IF f.exists
  THEN [exists |-> TRUE,
        data |-> bytes \o SubSeq(f.data, Len(bytes) + 1, Len(f.data))]
  ELSE f

\* save_result: f.write(text) and the close that flushes it.
Write(r) ==
  /\ pc[r] = "write"
  /\ result[r][stage[r]].kind = "str"
  /\ file' = [file EXCEPT ![FileOf(stage[r])] =
                Written(@, WriteText(result[r][stage[r]].s))]
  /\ pc' = [pc EXCEPT ![r] = AfterStage(stage[r])]
  /\ stage' = [stage EXCEPT ![r] = StageAfter(stage[r])]
  /\ UNCHANGED <<dirExists, doc, result, images, page, full_text, calls, out,
                 exit, before, resume, disturbed, origin>>

\* save_result: f.write(None) raises TypeError after the file was opened.
WriteTypeError(r) ==
  /\ pc[r] = "write"
  /\ result[r][stage[r]].kind # "str"
  /\ Abort(r, "malformed")
  /\ UNCHANGED <<dirExists, file, doc, stage, result,
                 calls, out, before, resume, disturbed, origin>>

\* save_result: the write is cut short (disk full, interruption) after n
\* characters reached the file.
WriteFail(r, n) ==
  /\ pc[r] = "write"
  /\ result[r][stage[r]].kind = "str"
  /\ n < Len(WriteText(result[r][stage[r]].s))
  /\ file' = [file EXCEPT ![FileOf(stage[r])] =
                Written(@, SubSeq(WriteText(result[r][stage[r]].s), 1, n))]
  /\ Abort(r, "filesystem")
  /\ UNCHANGED <<dirExists, doc, stage, result, calls,
                 out, before, resume, disturbed, origin>>

Section(label, value) == [label |-> label, text |-> value]

\* Mutant: the proof is printed under the heading of the validation and
\* the validation under that of the proof.
SectionsSwapped(r) ==
  << Section("extracted_text", extracted_text(r)),
     Section("main_theorem", main_theorem(r)),
     Section("proof", validation(r)),
     Section("validation", proof(r)) >>

\* The closing prints of main(): the four results under their headings.
Sections(r) ==
  << Section("extracted_text", extracted_text(r)),
     Section("main_theorem", main_theorem(r)),
     Section("proof", proof(r)),
     Section("validation", validation(r)) >>

\* main() prints the results and returns: exit status 0.
Emit(r) ==
  /\ pc[r] = "emit"
  /\ out' = [out EXCEPT ![r] = Sections(r)]
  /\ pc' = [pc EXCEPT ![r] = "done"]
  /\ exit' = [exit EXCEPT ![r] = [code |-> 0, cause |-> "none", stage |-> 0]]
  /\ UNCHANGED <<dirExists, file, doc, stage, result, images, page, full_text,
                 calls, before, resume, disturbed, origin>>

\* The process is gone: nothing of the run is left but its exit status and
\* the files.
Exit(r) ==
  /\ pc[r] \in {"done", "aborted"}
  /\ pc' = [pc EXCEPT ![r] = "idle"]
  /\ doc' = [doc EXCEPT ![r] = 0]
  /\ stage' = [stage EXCEPT ![r] = 0]
  /\ result' = [result EXCEPT ![r] = [s \in Stages |-> Unset]]
  /\ calls' = [calls EXCEPT ![r] = <<>>]
  /\ out' = [out EXCEPT ![r] = <<>>]
  /\ before' = [before EXCEPT ![r] = [f \in Filenames |-> AbsentFile]]
  /\ UNCHANGED <<dirExists, file, images, page, full_text, exit, resume, disturbed, origin>>

\* Between two runs someone removes a result file from the output directory.
ExternalDelete(f) ==
  /\ \A r \in Procs : pc[r] = "idle"
  /\ file[f].exists
  /\ file' = [file EXCEPT ![f] = AbsentFile]
  /\ disturbed' = TRUE
  /\ resume' = 0
  /\ origin' = IF f = proof_file THEN Unset ELSE origin
  /\ UNCHANGED <<dirExists, pc, doc, stage, result, images, page, full_text,
                 calls, out, exit, before>>

\* Largest number of characters that reach the file in a write cut short.
MaxCut == 1

\* One step of a run that has started.
Proceed(r) ==
  \/ Check(r)
  \/ Load(r)
  \/ Rasterize(r)
  \/ RasterizeFail(r)
  \/ Request(r)
  \/ \E c \in Contents : Respond(r, c)
  \/ Raise(r)
  \/ Open(r)
  \/ OpenFail(r)
  \/ Write(r)
  \/ WriteTypeError(r)
  \/ \E n \in 0..MaxCut : WriteFail(r, n)
  \/ Emit(r)

\* One step of process r: a new run, or the next step of its run.
Step(r) ==
  \/ \E d \in Docs : Start(r, d)
  \/ Proceed(r)
  \/ Exit(r)

\* Sequential runs: one pipeline process, started again and again, and the
\* environment deleting files.
Next ==
  \/ Step(1)
  \/ \E f \in Filenames : ExternalDelete(f)

Spec == Init /\ [][Next]_vars

\* Sequential runs on a directory nobody else touches.
NoDeleteSpec == Init /\ [][Step(1)]_vars

\* The document of the concurrent runs: one page.
ConcDoc == 1

\* One step of a run in which no call and no file operation fails.
Succeed(r) ==
  \/ Check(r)
  \/ Load(r)
  \/ Rasterize(r)
  \/ Request(r)
  \/ \E t \in Responses : Respond(r, Str(t))
  \/ Open(r)
  \/ Write(r)
  \/ Emit(r)

\* Two pipeline processes started once each on the same output directory
\* for the same document, their steps interleaved in any order.
ConcStep(r) ==
  \/ exit[r] = NoExit /\ Start(r, ConcDoc)
  \/ Succeed(r)

ConcNext == \E r \in Procs : ConcStep(r)

ConcSpec == Init /\ [][ConcNext]_vars

\* A process that has started keeps running until it ends: nothing but its
\* own exceptions stops the interpreter.
LiveSpec == Spec /\ WF_vars(Proceed(1))

(***************************************************************************)
(* What the log of a run says.                                             *)
(***************************************************************************)
\* The calls of stage s in the log of run r, in order.
StageCalls(r, s) == SelectSeq(calls[r], LAMBDA e : e.stage = s)

\* Run r has entered the compute function of stage s.
Computed(r, s) == \E i \in 1..Len(calls[r]) : calls[r][i].stage = s

RECURSIVE PagesText(_)
\* The page results of the log entries, each followed by a newline.
PagesText(log) ==
  IF log = <<>> THEN <<>>
  ELSE Head(log).response.s \o <<LF>> \o PagesText(Tail(log))

\* The text the compute function of stage s returned in run r, by the log.
StageOutput(r, s) ==
  IF s = 1 THEN PagesText(StageCalls(r, 1)) ELSE StageCalls(r, s)[1].response.s

Started(r) == pc[r] # "idle"

(***************************************************************************)
(* C1.  Once a stage's result file is present, no later run recomputes the *)
(* stage or changes the file: a present file changes only by an external   *)
(* deletion between runs or by the write that completes it in the run that *)
(* created it; no run opens a present file for writing, rasterizes or      *)
(* issues a call for a stage whose file is present.                        *)
(***************************************************************************)
C1_StageFileKept ==
  [][ /\ \A f \in Filenames : (file[f].exists /\ file'[f] # file[f]) =>
            \/ (~file'[f].exists /\ \A r \in Procs : pc[r] = "idle")
            \/ \E r \in Procs : /\ pc[r] = "write"
                                 /\ f = FileOf(stage[r])
                                 /\ ~before[r][f].exists
      /\ \A r \in Procs :
            /\ (pc[r] = "open" /\ pc'[r] = "write") => ~file[FileOf(stage[r])].exists
            /\ (Len(calls'[r]) > Len(calls[r])) => ~file[FileOf(stage[r])].exists
            /\ (pc'[r] = "raster") => ~file[extracted_text_file].exists
    ]_vars

\* A later run has loaded stages 1 and 2 from their files, which it left as
\* they were, and computed stages 3 and 4.
C1_Witness ==
  /\ pc[1] = "done"
  /\ before[1][extracted_text_file].exists
  /\ before[1][main_theorem_file].exists
  /\ ~before[1][proof_file].exists
  /\ Len(calls[1]) = 2
  /\ file[extracted_text_file] = before[1][extracted_text_file]
  /\ file[main_theorem_file] = before[1][main_theorem_file]

(***************************************************************************)
(* C2.  A run that finds all four files makes no call and no               *)
(* rasterization, cannot abort, and ends with each stage's result being    *)
(* the text read from its file; and for every stage whose file the run     *)
(* finds, the compute function is bypassed and the result is the text read *)
(* from the file.                                                          *)
(***************************************************************************)
AllCached(r) == \A f \in Filenames : before[r][f].exists

C2_CacheBypass ==
  \A r \in Procs : Started(r) =>
    /\ AllCached(r) =>
         /\ calls[r] = <<>>
         /\ images[r] = 0
         /\ pc[r] \in {"check", "load", "emit", "done"}
         /\ pc[r] = "done" =>
              /\ exit[r].code = 0
              /\ \A s \in Stages : result[r][s] = Str(ReadText(file[FileOf(s)].data))
              /\ \A s \in Stages : out[r][s].text = Str(ReadText(file[FileOf(s)].data))
    /\ \A s \in Stages : before[r][FileOf(s)].exists =>
         /\ ~Computed(r, s)
         /\ (pc[r] \in {"raster", "call", "wait", "open", "write"}) => stage[r] # s
         /\ s = 1 => images[r] = 0
         /\ result[r][s] # Unset =>
              result[r][s] = Str(ReadText(before[r][FileOf(s)].data))

\* A run given a path that does not exist has ended with success on four
\* cached files, one of them holding a carriage return.
C2_Witness ==
  /\ pc[1] = "done"
  /\ AllCached(1)
  /\ doc[1] = 0
  /\ calls[1] = <<>>
  /\ file[proof_file].data = <<CR>>
  /\ Len(out[1]) = 4

(***************************************************************************)
(* C3.  When a run ends because the call of stage k raised, the files of   *)
(* stages 1..k-1 exist, those computed in this run holding exactly the     *)
(* text their stage returned and those loaded being as they were when the  *)
(* run started; the file of stage k does not exist, and no file of a later *)
(* stage exists that did not exist before the run.                         *)
(***************************************************************************)
C3_PartialProgress ==
  \A r \in Procs : (pc[r] = "aborted" /\ exit[r].cause = "service") =>
    /\ \A j \in 1..(exit[r].stage - 1) :
         /\ file[FileOf(j)].exists
         /\ Computed(r, j) =>
              /\ ~before[r][FileOf(j)].exists
              /\ file[FileOf(j)].data = StageOutput(r, j)
         /\ ~Computed(r, j) => file[FileOf(j)] = before[r][FileOf(j)]
    /\ ~file[FileOf(exit[r].stage)].exists
    /\ \A j \in (exit[r].stage + 1)..4 :
         ~before[r][FileOf(j)].exists => ~file[FileOf(j)].exists

\* Stage 3 failed in a run that computed stages 1 and 2.
C3_Witness ==
  /\ pc[1] = "aborted"
  /\ exit[1].cause = "service"
  /\ exit[1].stage = 3
  /\ Computed(1, 1)
  /\ Computed(1, 2)
  /\ file[main_theorem_file].data = <<CR>>

(***************************************************************************)
(* C4.  In the run that follows a run ended by a raising call of stage k   *)
(* (no file deleted in between), the files of stages 1..k-1 are found and  *)
(* loaded without a call, the file of stage k is not found, the first call *)
(* of the run is the one of stage k (page 1 when k = 1), and the run does  *)
(* not get past stage k without computing it.                              *)
(***************************************************************************)
C4_Resume ==
  (resume # 0 /\ Started(1)) =>
    /\ \A j \in 1..(resume - 1) :
         /\ before[1][FileOf(j)].exists
         /\ ~Computed(1, j)
         /\ result[1][j] # Unset =>
              result[1][j] = Str(ReadText(before[1][FileOf(j)].data))
    /\ ~before[1][FileOf(resume)].exists
    /\ calls[1] # <<>> =>
         /\ calls[1][1].stage = resume
         /\ resume = 1 => calls[1][1].page = 1
    /\ (stage[1] > resume \/ pc[1] \in {"emit", "done"}) => Computed(1, resume)

\* The run after a failure in stage 3 has completed, its first call being
\* the one of stage 3.
C4_Witness ==
  /\ resume = 3
  /\ pc[1] = "done"
  /\ calls[1][1].stage = 3
  /\ Len(calls[1]) = 2


(***************************************************************************)
(* C5 as stated.  A run given a path that does not exist ends with a       *)
(* document error before any stage has a result, before any call and       *)
(* before any file is written, whatever the directory held.                *)
(***************************************************************************)
C5_MissingDocumentAlwaysFatal ==
  \A r \in Procs : (Started(r) /\ doc[r] = 0) =>
    /\ \A s \in Stages : result[r][s] = Unset
    /\ calls[r] = <<>>
    /\ file = before[r]
    /\ pc[r] \in {"check", "raster", "aborted"}
    /\ pc[r] = "aborted" => exit[r].cause = "document"

(***************************************************************************)
(* C5 amended.  A run given a path that does not exist raises the document *)
(* error exactly when extracted_text.txt is absent: it then ends in stage  *)
(* 1, the output directory created, with no call made, no result and no    *)
(* file written.  When extracted_text.txt is present the document is never *)
(* opened, no document error is raised and the run goes on with the text   *)
(* of the file.                                                            *)
(***************************************************************************)
C5_MissingDocument ==
  \A r \in Procs : (Started(r) /\ doc[r] = 0) =>
    /\ dirExists
    /\ ~before[r][extracted_text_file].exists =>
         /\ stage[r] = 1
         /\ pc[r] \in {"check", "raster", "aborted"}
         /\ pc[r] = "aborted" => (exit[r].cause = "document" /\ exit[r].code # 0)
         /\ calls[r] = <<>>
         /\ \A s \in Stages : result[r][s] = Unset
         /\ file = before[r]
    /\ before[r][extracted_text_file].exists =>
         /\ pc[r] # "raster"
         /\ images[r] = 0
         /\ exit[r].cause # "document"
         /\ (stage[r] > 1 \/ pc[r] \in {"emit", "done"}) =>
              extracted_text(r) = Str(ReadText(before[r][extracted_text_file].data))

\* The document error has ended a run that found main_theorem.txt but not
\* extracted_text.txt.
C5_Witness ==
  /\ pc[1] = "aborted"
  /\ doc[1] = 0
  /\ exit[1].cause = "document"
  /\ before[1][main_theorem_file].exists
  /\ file = before[1]

(***************************************************************************)
(* C6.  The paper text inside the request of every call of stage 2 is      *)
(* exactly the output of stage 1 in that run: the page results of this     *)
(* run's calls, each followed by a newline, when stage 1 was computed, and *)
(* the text read from extracted_text.txt when it was loaded.               *)
(***************************************************************************)
\* The text between the heading of the paper and the closing instruction.
PaperText(content) == SubSeq(content, 4, Len(content) - 3)

ExtractionOutput(r) ==
  IF Computed(r, 1) THEN StageOutput(r, 1)
  ELSE ReadText(before[r][extracted_text_file].data)

C6_TheoremInput ==
  \A r \in Procs : \A i \in 1..Len(calls[r]) : calls[r][i].stage = 2 =>
    /\ Len(calls[r][i].request.messages[1].content) >= 6
    /\ PaperText(calls[r][i].request.messages[1].content) = ExtractionOutput(r)
    /\ extracted_text(r) = Str(ExtractionOutput(r))
    /\ Computed(r, 1) => Len(ExtractionOutput(r)) >= 2 * doc[r]

\* Stage 2 is being computed from a text loaded from a file that holds CR LF.
C6_Witness ==
  /\ pc[1] = "wait"
  /\ stage[1] = 2
  /\ ~Computed(1, 1)
  /\ before[1][extracted_text_file].data = <<CR, LF>>
  /\ PaperText(calls[1][1].request.messages[1].content) = <<LF>>

(***************************************************************************)
(* C7.  The calls of the extraction stage are the first calls of the run,  *)
(* the i-th carrying the image of page i; a call is made only when every   *)
(* earlier one has returned a text; and once the stage has its output, the *)
(* calls are as many as the pages and the output is their results in page  *)
(* order, each followed by a newline.                                      *)
(***************************************************************************)
C7_PageOrder ==
  \A r \in Procs :
    LET pages == StageCalls(r, 1) IN
    /\ Len(pages) <= doc[r]
    /\ \A i \in 1..Len(pages) :
         /\ calls[r][i] = pages[i]
         /\ pages[i].page = i
         /\ pages[i].request.messages[1].content[2].url = DataUrl(i)
    /\ \A i \in 1..Len(calls[r]) :
         /\ i < Len(calls[r]) => calls[r][i].response.kind = "str"
         /\ calls[r][i].response = Pending <=> (i = Len(calls[r]) /\ pc[r] = "wait")
    /\ (Computed(r, 1) /\ extracted_text(r) # Unset) =>
         /\ Len(pages) = doc[r]
         /\ \A i \in 1..Len(pages) : pages[i].response.kind = "str"
         /\ extracted_text(r) = Str(PagesText(pages))

\* A two-page document has been extracted, its pages giving different texts.
C7_Witness ==
  /\ pc[1] = "open"
  /\ stage[1] = 1
  /\ doc[1] = 2
  /\ Len(calls[1]) = 2
  /\ extracted_text(1) = Str(<<"a", LF, CR, LF>>)

(***************************************************************************)
(* C8.  A run that started on an empty directory and succeeded leaves the  *)
(* four files: extracted_text.txt holds the page results, each followed by *)
(* a newline; each other file holds verbatim the text returned by the one  *)
(* call of its stage; the run made N + 3 calls for a document of N pages.  *)
(***************************************************************************)
C8_EndToEnd ==
  \A r \in Procs :
    (pc[r] = "done" /\ \A f \in Filenames : ~before[r][f].exists) =>
      /\ exit[r].code = 0
      /\ \A f \in Filenames : file[f].exists
      /\ Len(calls[r]) = doc[r] + 3
      /\ file[extracted_text_file].data = PagesText(SubSeq(calls[r], 1, doc[r]))
      /\ \A s \in 2..4 :
           /\ Len(StageCalls(r, s)) = 1
           /\ calls[r][doc[r] + s - 1].stage = s
           /\ file[FileOf(s)].data = calls[r][doc[r] + s - 1].response.s

\* The end-to-end scenario on a one-page document.
C8_Witness ==
  /\ pc[1] = "done"
  /\ \A f \in Filenames : ~before[1][f].exists
  /\ doc[1] = 1
  /\ file[extracted_text_file].data = <<"a", LF>>
  /\ file[main_theorem_file].data = <<CR>>
  /\ file[proof_file].data = <<"a">>
  /\ file[validation_file].data = <<CR>>

(***************************************************************************)
(* C9.  The results are printed only by a run in which all four stages     *)
(* have a result, in the order extraction, theorem, proof, validation, and *)
(* that run exits with status 0; a run ended by an exception has printed   *)
(* none of them and exits with a nonzero status; and every run ends, with  *)
(* the results printed unless one of its calls raised.                     *)
(***************************************************************************)
C9_Output ==
  \A r \in Procs :
    /\ out[r] # <<>> =>
         /\ pc[r] = "done"
         /\ Len(out[r]) = 4
         /\ \A s \in Stages : result[r][s].kind = "str" /\ out[r][s].text = result[r][s]
         /\ out[r][1].label = "extracted_text"
         /\ out[r][2].label = "main_theorem"
         /\ out[r][3].label = "proof"
         /\ out[r][4].label = "validation"
    /\ pc[r] = "done" => (out[r] # <<>> /\ exit[r].code = 0)
    /\ pc[r] = "aborted" =>
         /\ out[r] = <<>>
         /\ exit[r].code # 0
         /\ exit[r].cause \in {"document", "service", "malformed", "filesystem"}

C9_Emission == []C9_Output /\ (Running(1) ~> (pc[1] \in {"done", "aborted"}))

\* A run has printed four results, the proof differing from the validation.
C9_Witness ==
  /\ pc[1] = "done"
  /\ Len(out[1]) = 4
  /\ out[1][3].text = Str(<<"a">>)
  /\ out[1][4].text = Str(<<CR>>)

(***************************************************************************)
(* C10.  Every request of every run has temperature 0 and a single user    *)
(* message, whose content is the instruction of its call site around the   *)
(* outputs of the earlier stages it is given (the page image for stage 1)  *)
(* and nothing else.                                                       *)
(***************************************************************************)
C10_Requests ==
  \A r \in Procs : \A i \in 1..Len(calls[r]) :
    LET e == calls[r][i]
        q == calls[r][i].request
    IN /\ q.temperature = 0
       /\ q.model = "gpt-4o"
       /\ Len(q.messages) = 1
       /\ q.messages[1].role = "user"
       /\ e.stage = 1 =>
            /\ Len(q.messages[1].content) = 2
            /\ q.messages[1].content[1].type = "text"
            /\ q.messages[1].content[2].type = "image_url"
            /\ q.messages[1].content[2].url = DataUrl(e.page)
       /\ e.stage = 2 =>
            q.messages[1].content = MainTheoremPrompt(extracted_text(r).s)
       /\ e.stage = 3 =>
            q.messages[1].content = ProofPrompt(main_theorem(r).s)
       /\ e.stage = 4 =>
            q.messages[1].content = ValidationPrompt(main_theorem(r).s, proof(r).s)

\* A run has made five calls: two pages and the three later stages.
C10_Witness ==
  /\ pc[1] = "done"
  /\ Len(calls[1]) = 5
  /\ calls[1][4].stage = 3
  /\ calls[1][4].request.temperature = 0


(***************************************************************************)
(* C13 as stated.  Whenever no run is in the middle of a write, every      *)
(* result file that exists holds the complete text of a successful         *)
(* computation of its stage, and every text a run loads from a file is     *)
(* such a text as read back: no aborted run leaves an empty or partial     *)
(* file for a later run to accept.                                         *)
(***************************************************************************)
RECURSIVE PageTexts(_)
\* The outputs of the extraction stage over n pages.
PageTexts(n) ==
  IF n = 0 THEN {<<>>}
  ELSE {AppendPage(t, p) : t \in PageTexts(n - 1), p \in Responses}

\* The texts a successful computation of stage s can return.
CompleteTexts(s) ==
  IF s = 1 THEN UNION {PageTexts(n) : n \in 1..MaxPages} ELSE Responses

C13_FilesComplete ==
  /\ (\A r \in Procs : pc[r] # "write") =>
       \A s \in Stages : file[FileOf(s)].exists =>
         file[FileOf(s)].data \in {WriteText(t) : t \in CompleteTexts(s)}
  /\ \A r \in Procs : \A s \in Stages :
       (result[r][s] # Unset /\ ~Computed(r, s)) =>
         result[r][s].s \in {ReadText(WriteText(t)) : t \in CompleteTexts(s)}


(***************************************************************************)
(* C14.  In sequential runs from an empty directory with no external       *)
(* deletion, the files that exist are always a prefix of extracted_text,   *)
(* main_theorem, proof, validation: no file exists while the file of an    *)
(* earlier stage is absent.                                                *)
(***************************************************************************)
C14_PrefixOfStages ==
  /\ file[main_theorem_file].exists => file[extracted_text_file].exists
  /\ file[proof_file].exists => file[main_theorem_file].exists
  /\ file[validation_file].exists => file[proof_file].exists

\* A run has ended in stage 3, leaving the files of stages 1 and 2 only.
C14_Witness ==
  /\ pc[1] = "aborted"
  /\ exit[1].stage = 3
  /\ file[extracted_text_file].exists
  /\ file[main_theorem_file].exists
  /\ ~file[proof_file].exists
  /\ ~file[validation_file].exists


(***************************************************************************)
(* C15.  The request of every call of stage 3 embeds exactly the result of *)
(* stage 2 of that run, and the request of every call of stage 4 exactly   *)
(* the results of stages 2 and 3, each being the text its call returned    *)
(* when computed in this run and the text read from its file when loaded;  *)
(* the same texts are printed at the end of the run.                       *)
(***************************************************************************)
\* The result of stage s in run r: by the log when computed, by the file
\* the run found when loaded.
StageText(r, s) ==
  IF Computed(r, s) THEN StageOutput(r, s)
  ELSE ReadText(before[r][FileOf(s)].data)

C15_LaterInputs ==
  \A r \in Procs :
    /\ \A i \in 1..Len(calls[r]) :
         /\ calls[r][i].stage = 3 =>
              /\ calls[r][i].request.messages[1].content = ProofPrompt(StageText(r, 2))
              /\ SubSeq(calls[r][i].request.messages[1].content, 4,
                        Len(calls[r][i].request.messages[1].content)) = StageText(r, 2)
              /\ main_theorem(r) = Str(StageText(r, 2))
         /\ calls[r][i].stage = 4 =>
              /\ calls[r][i].request.messages[1].content =
                   ValidationPrompt(StageText(r, 2), StageText(r, 3))
              /\ main_theorem(r) = Str(StageText(r, 2))
              /\ proof(r) = Str(StageText(r, 3))
    /\ pc[r] = "done" =>
         /\ out[r][2].text = Str(StageText(r, 2))
         /\ out[r][3].text = Str(StageText(r, 3))

\* A run has recomputed stage 2, loaded stage 3 from a file holding CR, and
\* computed stage 4 from both.
C15_Witness ==
  /\ pc[1] = "done"
  /\ Computed(1, 2)
  /\ ~Computed(1, 3)
  /\ Computed(1, 4)
  /\ main_theorem(1) = Str(<<"a">>)
  /\ proof(1) = Str(<<LF>>)
  /\ calls[1][Len(calls[1])].request.messages[1].content = ValidationPrompt(<<"a">>, <<LF>>)


(***************************************************************************)
(* C16.  When the call for page k raises or returns no content during the  *)
(* extraction, the run ends with extracted_text.txt absent and every file  *)
(* as it was when the run started, the texts of pages 1..k-1 being in no   *)
(* file; the run that follows finds no extracted_text.txt, calls for the   *)
(* pages in order from page 1, and has an extracted text only after a call *)
(* for every page.                                                         *)
(***************************************************************************)
C16_NoMidStageResume ==
  /\ \A r \in Procs :
       (pc[r] = "aborted" /\ exit[r].stage = 1 /\ exit[r].cause \in {"service", "malformed"}) =>
         /\ ~file[extracted_text_file].exists
         /\ file = before[r]
         /\ calls[r] # <<>>
         /\ \A i \in 1..Len(calls[r]) : calls[r][i].stage = 1 /\ calls[r][i].page = i
         /\ \A i \in 1..(Len(calls[r]) - 1) : calls[r][i].response.kind = "str"
  /\ (resume = 1 /\ Started(1)) =>
       /\ ~before[1][extracted_text_file].exists
       /\ pc[1] # "load" \/ stage[1] # 1
       /\ \A i \in 1..Len(StageCalls(1, 1)) : StageCalls(1, 1)[i].page = i
       /\ \A i \in 1..Len(calls[1]) : calls[1][i].stage = 1 => i = calls[1][i].page
       /\ extracted_text(1) # Unset =>
            /\ Len(StageCalls(1, 1)) = doc[1]
            /\ extracted_text(1) = Str(PagesText(StageCalls(1, 1)))

\* The run after a failed extraction has called for page 1 again, got its
\* text, and failed on page 2: no file holds the text of page 1.
C16_Witness ==
  /\ resume = 1
  /\ pc[1] = "aborted"
  /\ exit[1].cause = "service"
  /\ exit[1].stage = 1
  /\ Len(calls[1]) = 2
  /\ calls[1][1].page = 1
  /\ calls[1][1].response = Str(<<"a">>)
  /\ \A f \in Filenames : ~file[f].exists


(***************************************************************************)
(* C17.  Saving then loading is the identity: once a run has computed and  *)
(* saved the text of a stage, reading the stage's file as load_result does *)
(* gives that same text.                                                   *)
(***************************************************************************)
\* Run r has computed stage s and save_result has returned.
Saved(r, s) ==
  /\ Computed(r, s)
  /\ result[r][s].kind = "str"
  /\ stage[r] > s \/ pc[r] \in {"emit", "done"}

C17_SaveLoadIdentity ==
  \A r \in Procs : \A s \in Stages :
    Saved(r, s) => ReadText(file[FileOf(s)].data) = result[r][s].s

\* The same, for the texts without a carriage return.
C17_SaveLoadIdentityNoCR ==
  \A r \in Procs : \A s \in Stages :
    (Saved(r, s) /\ \A i \in 1..Len(result[r][s].s) : result[r][s].s[i] # CR) =>
      ReadText(file[FileOf(s)].data) = result[r][s].s


(***************************************************************************)
(* C18.  Whenever proof.txt exists alongside main_theorem.txt, the main    *)
(* theorem it was computed from is the text main_theorem.txt holds now (as *)
(* load_result reads it): one of the three dependencies of the claim.      *)
(***************************************************************************)
\* The text load_result would return for the file now.
Current(f) == ReadText(file[f].data)

C18_ProofFromCurrentTheorem ==
  (file[proof_file].exists /\ file[main_theorem_file].exists) =>
    /\ origin.kind = "str"
    /\ ReadText(origin.s) = Current(main_theorem_file)


(***************************************************************************)
(* C11.  Nothing keeps two interleaved runs from computing the same stage: *)
(* the existence check never waits and decides by the presence of the file *)
(* alone, whatever the other run is doing; a run that found the file       *)
(* absent stays in the stage's computation until it opens the file, even   *)
(* if the file has appeared meanwhile; opening truncates what the other    *)
(* run wrote, and a finished write leaves the writer's text at the start   *)
(* of the file.                                                            *)
(***************************************************************************)
Computing == {"raster", "call", "wait", "open"}

C11_NoExclusionStep(r) ==
  /\ (pc[r] = "check" /\ pc'[r] # "check") =>
       pc'[r] = IF file[FileOf(stage[r])].exists THEN "load"
                ELSE IF stage[r] = 1 THEN "raster" ELSE "call"
  /\ pc[r] \in Computing =>
       /\ stage'[r] = stage[r]
       /\ pc'[r] \in Computing \cup {"write"}
  /\ (pc[r] = "open" /\ pc'[r] = "write") =>
       file'[FileOf(stage[r])] = [exists |-> TRUE, data |-> <<>>]
  /\ (pc[r] = "write" /\ pc'[r] # "write") =>
       /\ file'[FileOf(stage[r])].exists
       /\ Len(file'[FileOf(stage[r])].data) >= Len(WriteText(result[r][stage[r]].s))
       /\ SubSeq(file'[FileOf(stage[r])].data, 1, Len(WriteText(result[r][stage[r]].s)))
            = WriteText(result[r][stage[r]].s)

C11_DuplicateComputation ==
  /\ [](\A r \in Procs : pc[r] = "check" => ENABLED Check(r))
  /\ [][\A r \in Procs : C11_NoExclusionStep(r)]_vars

\* Both runs have extracted the text, with different results, and both have
\* saved it: the file holds the text of run 2, the last to write.
C11_Witness ==
  /\ Computed(1, 1) /\ Computed(2, 1)
  /\ Saved(1, 1) /\ Saved(2, 1)
  /\ extracted_text(1) = Str(<<"a", LF>>)
  /\ extracted_text(2) = Str(<<CR, LF>>)
  /\ file[extracted_text_file].data = <<CR, LF>>

(***************************************************************************)
(* C12.  A run reads a stage file without regard to its writer: the load   *)
(* never waits, the existence check sends the run to the load as soon as   *)
(* the file exists, the result of the load is the text the file holds at   *)
(* that moment, complete or not, and every later request of the run embeds *)
(* the results the run holds.                                              *)
(***************************************************************************)
C12_LoadStep(r) ==
  /\ (pc[r] = "check" /\ pc'[r] # "check" /\ file[FileOf(stage[r])].exists) =>
       pc'[r] = "load"
  /\ (pc[r] = "load" /\ pc'[r] # "load") =>
       result'[r][stage[r]] = Str(ReadText(file[FileOf(stage[r])].data))

C12_Embedded(r) ==
  \A i \in 1..Len(calls[r]) :
    /\ calls[r][i].stage = 2 =>
         calls[r][i].request.messages[1].content = MainTheoremPrompt(extracted_text(r).s)
    /\ calls[r][i].stage = 3 =>
         calls[r][i].request.messages[1].content = ProofPrompt(main_theorem(r).s)
    /\ calls[r][i].stage = 4 =>
         calls[r][i].request.messages[1].content =
           ValidationPrompt(main_theorem(r).s, proof(r).s)

C12_DirtyRead ==
  /\ [](\A r \in Procs : /\ pc[r] = "load" => ENABLED Load(r)
                         /\ C12_Embedded(r))
  /\ [][\A r \in Procs : C12_LoadStep(r)]_vars

\* Run 1 has opened extracted_text.txt and not yet written its text; run 2
\* has found the file, loaded the empty text and sent it in the request of
\* stage 2.
C12_Witness ==
  /\ pc[1] = "write"
  /\ stage[1] = 1
  /\ extracted_text(1) = Str(<<"a", LF>>)
  /\ file[extracted_text_file] = [exists |-> TRUE, data |-> <<>>]
  /\ extracted_text(2) = Str(<<>>)
  /\ calls[2] # <<>>
  /\ calls[2][1].stage = 2
  /\ calls[2][1].request.messages[1].content = MainTheoremPrompt(<<>>)

====
